---- MODULE Spec2Model ----
(***************************************************************************)
(* Model of ppl::pipeline (src/src/pipeline.h): the node table, the        *)
(* connection protocol and the polling scheduler.                          *)
(*                                                                         *)
(* A node_id n is the 0-based table position; the table entry of n is      *)
(* nodes[n + 1].  A `const node*` is modelled by the position of the node  *)
(* it points to (the table never moves or reuses a node), NullPtr for      *)
(* nullptr and WildPtr for a pointer read from outside the vector.         *)
(***************************************************************************)
EXTENDS Integers, Sequences, FiniteSets, TLC

\* ---------------------------------------------------------------- bounds
MaxNodes == 2

\* ------------------------------------------------------------- constants
\* std::numeric_limits<std::size_t>::max(), i.e. (size_t)-1
invalid_node_id == -1
\* nullptr
NullPtr == -1
\* a garbage pointer obtained by reading nodes[n] with n >= nodes.size()
WildPtr == -2

\* pipeline_error_kind
pipeline_error_kind ==
    {"invalid_node_id", "no_such_slot", "slot_already_used", "connection_type_mismatch"}

\* poll
poll == {"ready", "empty", "closed"}

\* the concrete node classes a host registers with create_node<N>:
\* source<int> emitting 1, 2, 3, source<string> with a tick without a value
\* (0) before its only value, sink<int> and sink<string>
NodeClasses ==
    {[kind |-> "source", type |-> "int", script |-> <<1, 2, 3>>],
     [kind |-> "source", type |-> "string", script |-> <<0, 1>>],
     [kind |-> "sink", type |-> "int", script |-> << >>],
     [kind |-> "sink", type |-> "string", script |-> << >>]}

\* the handle values a host can pass: table positions, one position that
\* create_node never returns, and the invalid sentinel
Handles == (0 .. MaxNodes) \cup {invalid_node_id}
Slots == -1 .. 1

VARIABLES nodes, connections, node_ids, last, pc
vars == <<nodes, connections, node_ids, last, pc>>

\* an emptied unique_ptr in the table
NoNode ==
    [kind |-> "none", type |-> "int", script |-> << >>, status |-> "none",
     input |-> NullPtr, fresh |-> FALSE, emitted |-> << >>, observed |-> << >>]

\* a node as constructed by create_node
NewNode(N) ==
    [kind |-> N.kind, type |-> N.type, script |-> N.script, status |-> "none",
     input |-> NullPtr, fresh |-> FALSE, emitted |-> << >>, observed |-> << >>]

\* the last call of the host: its name, its outcome ("ok", "crash", the
\* pipeline_error_kind thrown, "true"/"false" from step) and what it returned
\* (the handle from create_node) or did (the number of nodes erase_node destroyed)
Call(op, res, ret) == [op |-> op, res |-> res, ret |-> ret]

Live(n) == n \in 0 .. Len(nodes) - 1 /\ nodes[n + 1].kind # "none"
Created(n) == n \in 0 .. Len(nodes) - 1
Erased(n) == Created(n) /\ nodes[n + 1].kind = "none"

Init ==
    /\ nodes = << >>
    /\ connections = << >>
    /\ node_ids = << >>
    /\ last = Call("init", "ok", 0)
    /\ pc = "idle"

\* the host is between two calls and the process is alive
Idle == pc = "idle" /\ last.res # "crash"

\* ---------------------------------------------------------------- 3.6.1
is_valid(id) == id # invalid_node_id

\* a handle minted from the table size after the push_back
make_node_idAfterPush(value) == value + 1

make_node_id(value) == value

\* ---------------------------------------------------------------- 3.6.3
create_node(N) ==
    /\ Idle
    /\ Len(nodes) < MaxNodes
    /\ nodes' = Append(nodes, NewNode(N))
    /\ last' = Call("create_node", "ok", make_node_id(Len(nodes)))
    /\ UNCHANGED <<connections, node_ids, pc>>

\* erasing by removing the entry from the vector, which moves the later nodes
resetRemove(ns, n_id) == SubSeq(ns, 1, n_id) \o SubSeq(ns, n_id + 2, Len(ns))

\* nodes[n_id].reset() on an entry of the table: the node is destroyed and the
\* entry stays, empty
reset(ns, n_id) == [ns EXCEPT ![n_id + 1] = NoNode]

\* erase_node: inside the vector it empties the entry; outside it is
\* an out-of-bounds access, which either goes unnoticed or kills the process
erase_node(n_id) ==
    /\ Idle
    /\ IF is_valid(n_id)
       THEN IF n_id < Len(nodes)
            THEN /\ nodes' = reset(nodes, n_id)
                 /\ last' = Call("erase_node", "ok",
                                 IF nodes[n_id + 1].kind = "none" THEN 0 ELSE 1)
            ELSE /\ nodes' = nodes
                 /\ \E r \in {"ok", "crash"} : last' = Call("erase_node", r, 0)
       ELSE /\ nodes' = nodes
            /\ last' = Call("erase_node", "ok", 0)
    /\ UNCHANGED <<connections, node_ids, pc>>

\* the pointers get_node can return: nodes[n_id].get(), read out of bounds
\* when n_id is valid but beyond the table
get_node(n_id) ==
    IF is_valid(n_id)
    THEN IF n_id < Len(nodes)
         THEN {IF nodes[n_id + 1].kind = "none" THEN NullPtr ELSE n_id}
         ELSE {NullPtr, WildPtr}
    ELSE {NullPtr}

\* ---------------------------------------------------------------- 3.6.4
\* source<Output>::connect: a source has no input slot and rejects every upstream
source_connect(dst_node, source, slot) ==
    [nodes |-> nodes, res |-> "no_such_slot"]

\* a sink's connect(source, slot): records the upstream of its single slot; it
\* is written to be called after validation and checks nothing itself
sink_connect(dst_node, source, slot) ==
    IF slot = 0
    THEN [nodes |-> [nodes EXCEPT ![dst_node + 1].input = source,
                                  ![dst_node + 1].observed = << >>,
                                  ![dst_node + 1].fresh =
                                      /\ source \in 0 .. Len(nodes) - 1
                                      /\ nodes[source + 1].status = "none"
                                      /\ nodes[dst_node + 1].status = "none"],
          res |-> "ok"]
    ELSE [nodes |-> nodes, res |-> "ok"]

\* the virtual call when source<Output> does not override connect
node_connectNoOverride(dst_node, source, slot) ==
    IF dst_node \in {NullPtr, WildPtr}
    THEN [nodes |-> nodes, res |-> "crash"]
    ELSE sink_connect(dst_node, source, slot)

\* dst_node->connect(src_node, slot): the virtual call; through a null or
\* garbage pointer it kills the process
node_connect(dst_node, source, slot) ==
    IF dst_node \in {NullPtr, WildPtr}
    THEN [nodes |-> nodes, res |-> "crash"]
    ELSE IF nodes[dst_node + 1].kind = "source"
         THEN source_connect(dst_node, source, slot)
         ELSE sink_connect(dst_node, source, slot)

\* connect forwarding as soon as the source resolves
BothResolveSrcOnly(src_node, dst_node) == src_node # NullPtr

\* the condition under which pipeline::connect forwards to the destination
BothResolve(src_node, dst_node) == src_node # NullPtr /\ dst_node # NullPtr

connect(src, dst, slot) ==
    /\ Idle
    /\ \E src_node \in get_node(src), dst_node \in get_node(dst) :
          IF BothResolve(src_node, dst_node)
          THEN LET r == node_connect(dst_node, src_node, slot)
               IN /\ nodes' = r.nodes
                  /\ last' = Call("connect", r.res, 0)
          ELSE /\ nodes' = nodes
               /\ last' = Call("connect", "invalid_node_id", 0)
    /\ UNCHANGED <<connections, node_ids, pc>>

\* ---------------------------------------------------------------- 3.6.5
\* poll_next of a source: emits its next item, closed once it has none left
source_poll_next(n) ==
    IF n.status = "closed" \/ n.script = << >>
    THEN [n EXCEPT !.status = "closed"]
    ELSE IF Head(n.script) = 0
         THEN [n EXCEPT !.status = "empty", !.script = Tail(n.script)]
         ELSE [n EXCEPT !.status = "ready", !.script = Tail(n.script),
                        !.emitted = Append(n.emitted, Head(n.script))]

\* poll_next of a sink: closed for good once closed or when its slot is
\* unbound; otherwise it follows the last poll of its upstream and takes the
\* value of a ready upstream that has one (a sink is a producer<void> and has
\* no value()).  The upstream is a raw `const node*`: when the node behind it
\* was destroyed, or the pointer is garbage, the read is undefined and ub is
\* what it yields.
sink_poll_next(ns, n, ub) ==
    IF n.status = "closed" \/ n.input = NullPtr
    THEN [n EXCEPT !.status = "closed"]
    ELSE IF n.input = WildPtr \/ ns[n.input + 1].kind = "none"
         THEN [n EXCEPT !.status = ub]
         ELSE LET up == ns[n.input + 1]
              IN CASE up.status = "none" -> [n EXCEPT !.status = "empty"]
                   [] up.status = "ready" /\ up.kind = "source" ->
                        [n EXCEPT !.status = "ready",
                                  !.observed = IF n.fresh
                                               THEN Append(n.observed, up.emitted[Len(up.emitted)])
                                               ELSE n.observed]
                   [] OTHER -> [n EXCEPT !.status = up.status]

poll_next(ns, i, ub) ==
    IF ns[i].kind = "source"
    THEN [ns EXCEPT ![i] = source_poll_next(ns[i])]
    ELSE [ns EXCEPT ![i] = sink_poll_next(ns, ns[i], ub)]

\* one tick that polls the table from its end
RECURSIVE PollAllReverse(_, _, _)
PollAllReverse(ns, i, ub) ==
    IF i > Len(ns)
    THEN ns
    ELSE LET j == Len(ns) + 1 - i
         IN PollAllReverse(IF ns[j].kind = "none" THEN ns ELSE poll_next(ns, j, ub), i + 1, ub)

\* one tick: every node still in the table is polled once, in table order
RECURSIVE PollAll(_, _, _)
PollAll(ns, i, ub) ==
    IF i > Len(ns)
    THEN ns
    ELSE PollAll(IF ns[i].kind = "none" THEN ns ELSE poll_next(ns, i, ub), i + 1, ub)

\* a node with no outgoing connection
Terminal(n) == \A k \in 1 .. Len(connections) : connections[k].src # n

\* completion: every terminal node has reported closed
Complete(ns) ==
    \A n \in 0 .. Len(ns) - 1 :
        ns[n + 1].kind # "none" /\ Terminal(n) => ns[n + 1].status = "closed"

step(ub) ==
    /\ Idle
    /\ LET ns == PollAll(nodes, 1, ub)
       IN /\ nodes' = ns
          /\ last' = Call("step", IF Complete(ns) THEN "true" ELSE "false", 0)
    /\ UNCHANGED <<connections, node_ids, pc>>

\* while (step()) {}
RunAgainInverted(done) == done

\* a run() that stops after its first step
RunAgainNever(done) == FALSE

\* while (!step()) {}: whether the loop goes round again after a step
RunAgain(done) == ~done

\* the host calls run()
run ==
    /\ Idle
    /\ pc' = "run"
    /\ last' = Call("run", "running", 0)
    /\ UNCHANGED <<nodes, connections, node_ids>>

\* one round of the loop of run()
run_loop(ub) ==
    /\ pc = "run"
    /\ LET ns == PollAll(nodes, 1, ub)
       IN /\ nodes' = ns
          /\ IF RunAgain(Complete(ns))
             THEN UNCHANGED <<pc, last>>
             ELSE /\ pc' = "idle"
                  /\ last' = Call("run", "ok", 0)
    /\ UNCHANGED <<connections, node_ids>>

\* ---------------------------------------------------------------- 3.6.6
\* the pointer held by table entry i
EntryPtr(i) == IF nodes[i].kind = "none" THEN NullPtr ELSE i - 1

\* the keys the exporter looks up with node_ids.at(): every table entry, then
\* both ends of every connection
ExportKeys ==
    {EntryPtr(i) : i \in 1 .. Len(nodes)}
        \cup {connections[k].src : k \in 1 .. Len(connections)}
        \cup {connections[k].dst : k \in 1 .. Len(connections)}

\* operator<<: node_ids.at() throws std::out_of_range on a key the map does
\* not hold, n->name() on an emptied entry dereferences nullptr; otherwise one
\* line is written per table entry and per connection
export ==
    /\ Idle
    /\ last' = IF \E key \in ExportKeys : key \notin DOMAIN node_ids
               THEN Call("export", "out_of_range", 0)
               ELSE IF \E i \in 1 .. Len(nodes) : nodes[i].kind = "none"
                    THEN Call("export", "crash", 0)
                    ELSE Call("export", "ok", Len(nodes) + Len(connections))
    /\ UNCHANGED <<nodes, connections, node_ids, pc>>

Next ==
    \/ \E N \in NodeClasses : create_node(N)
    \/ \E n \in Handles : erase_node(n)
    \/ \E src \in Handles, dst \in Handles, slot \in Slots : connect(src, dst, slot)
    \/ \E ub \in poll : step(ub)
    \/ run
    \/ \E ub \in poll : run_loop(ub)
    \/ export

Spec == Init /\ [][Next]_vars

\* scheduling of run(): a loop that can go round again does
LiveSpec == Init /\ [][Next]_vars /\ WF_vars(\E ub \in poll : run_loop(ub))

\* ------------------------------------------------- the connection protocol
\* the input bindings of every node
Bindings == [i \in 1 .. Len(nodes) |-> nodes[i].input]

\* declared input arity, output type and slot type of a live node
Arity(n) == IF nodes[n + 1].kind = "sink" THEN 1 ELSE 0
OutputType(n) == IF nodes[n + 1].kind = "source" THEN nodes[n + 1].type ELSE "void"
SlotType(n, slot) == nodes[n + 1].type

\* the first check of the protocol that connect(src, dst, slot) does not pass
FirstFailedCheck(src, dst, slot) ==
    IF ~Live(src) \/ ~Live(dst) THEN "invalid_node_id"
    ELSE IF slot \notin 0 .. Arity(dst) - 1 THEN "no_such_slot"
    ELSE IF nodes[dst + 1].input # NullPtr THEN "slot_already_used"
    ELSE IF OutputType(src) # SlotType(dst, slot) THEN "connection_type_mismatch"
    ELSE "ok"

\* a handle that resolves to no node: the sentinel or an erased handle
Stale(h) == h = invalid_node_id \/ Erased(h)

\* C1: a connect call that fails any of the four checks leaves the connection
\* list and the input bindings of every node as they were
C1_ConnectionAtomicity ==
    [][\A src \in Handles, dst \in Handles, slot \in Slots :
          connect(src, dst, slot) /\ FirstFailedCheck(src, dst, slot) # "ok"
              => connections' = connections /\ Bindings' = Bindings]_vars

\* C2: a connect to a destination slot that a successful connect has bound
\* fails with slot_already_used for every live source, so no bound slot is
\* bound again
C2_SlotExclusivity ==
    [][\A src2 \in Handles, dst \in Handles :
          /\ connect(src2, dst, 0)
          /\ Live(src2) /\ Live(dst) /\ Arity(dst) = 1
          /\ nodes[dst + 1].input # NullPtr
          => last'.res = "slot_already_used" /\ Bindings' = Bindings]_vars

\* C3: is_valid(h) is false exactly for the sentinel and for erased handles,
\* and get_node of such a handle returns no node
C3_HandleValidity ==
    \A h \in Handles :
        /\ (~is_valid(h)) <=> Stale(h)
        /\ Stale(h) => get_node(h) = {NullPtr}

\* C4: connect fails with invalid_node_id whenever src or dst is the sentinel
\* or an erased handle
C4_StaleHandleRejected ==
    [][last'.op = "connect" /\ last'.res # "invalid_node_id"
          => \A src \in Handles, dst \in Handles, slot \in Slots :
                 Stale(src) \/ Stale(dst) => ~connect(src, dst, slot)]_vars

\* a connect has just thrown invalid_node_id in a table that holds an erased
\* handle next to a live node
C4_Witness ==
    /\ last.op = "connect" /\ last.res = "invalid_node_id"
    /\ \E n \in Handles : Erased(n)
    /\ \E n \in Handles : Live(n)

\* C7: a connect of two live nodes to an in-range, unbound slot whose type is
\* not the source's output type fails with connection_type_mismatch and
\* leaves the connection list as it was
C7_TypeMismatchRejected ==
    [][\A src \in Handles, dst \in Handles, slot \in Slots :
          connect(src, dst, slot)
          /\ FirstFailedCheck(src, dst, slot) = "connection_type_mismatch"
              => last'.res = "connection_type_mismatch" /\ connections' = connections]_vars

\* C8: a connect of two live nodes with a slot outside the destination's
\* arity fails with no_such_slot
C8_NoSuchSlot ==
    [][\A src \in Handles, dst \in Handles, slot \in Slots :
          connect(src, dst, slot) /\ FirstFailedCheck(src, dst, slot) = "no_such_slot"
              => last'.res = "no_such_slot"]_vars

\* C9: a connect that passes all four checks binds src to the slot and appends
\* exactly one (src, dst, slot) record; every other step leaves the list alone
C9_ConnectionRecorded ==
    [][/\ \A src \in Handles, dst \in Handles, slot \in Slots :
             connect(src, dst, slot) /\ FirstFailedCheck(src, dst, slot) = "ok"
                 => /\ nodes'[dst + 1].input = src
                    /\ connections' =
                           Append(connections, [src |-> src, dst |-> dst, slot |-> slot])
       /\ (\A src \in Handles, dst \in Handles, slot \in Slots :
             ~(connect(src, dst, slot) /\ FirstFailedCheck(src, dst, slot) = "ok"))
             => connections' = connections]_vars

\* C10: erase_node of the sentinel or of an erased handle succeeds and changes
\* nothing, and erase_node of any handle leaves every other table entry alone
C10_EraseIdempotence ==
    [][\A h \in Handles :
          erase_node(h)
              => /\ Len(nodes') = Len(nodes)
                 /\ \A m \in 1 .. Len(nodes) : m # h + 1 => nodes'[m] = nodes[m]
                 /\ Stale(h) => nodes' = nodes /\ last'.res = "ok" /\ last'.ret = 0]_vars

\* an erase_node has just returned without destroying a node, in a table that
\* holds an erased handle next to a live node
C10_Witness ==
    /\ last.op = "erase_node" /\ last.res = "ok" /\ last.ret = 0
    /\ \E n \in Handles : Erased(n)
    /\ \E n \in Handles : Live(n)

\* ------------------------------------------------------------ the scheduler
\* the values a source class emits, in order
RECURSIVE Values(_)
Values(script) ==
    IF script = << >> THEN << >>
    ELSE IF Head(script) = 0 THEN Values(Tail(script))
    ELSE <<Head(script)>> \o Values(Tail(script))

ScriptOf(t) == (CHOOSE N \in NodeClasses : N.kind = "source" /\ N.type = t).script

\* run() has just returned
RunReturned == pc = "idle" /\ last.op = "run" /\ last.res = "ok"

LiveSinks == {n \in 0 .. Len(nodes) - 1 : nodes[n + 1].kind = "sink"}

\* source a, not yet polled, was connected to slot 0 of sink b, not yet polled
\* and of a's type, and both are still in the table
Delivers(a, b) ==
    /\ Live(a) /\ Live(b)
    /\ nodes[a + 1].kind = "source" /\ nodes[b + 1].kind = "sink"
    /\ nodes[a + 1].type = nodes[b + 1].type
    /\ nodes[b + 1].input = a /\ nodes[b + 1].fresh

\* every bound slot of a node in the table leads to a source in the table
WellFormed ==
    \A b \in LiveSinks :
        nodes[b + 1].input # NullPtr
            => Live(nodes[b + 1].input) /\ nodes[nodes[b + 1].input + 1].kind = "source"

\* C5: run() terminates, and when it has returned every sink reports closed
C5_Termination ==
    /\ (pc = "run") ~> (pc = "idle")
    /\ [](RunReturned => \A b \in LiveSinks : nodes[b + 1].status = "closed")

\* what is left to do before every node is closed
RECURSIVE Rank(_, _)
Rank(ns, i) ==
    IF i > Len(ns) THEN 0
    ELSE Len(ns[i].script)
         + (IF ns[i].kind # "none" /\ ns[i].status # "closed" THEN 1 ELSE 0)
         + Rank(ns, i + 1)

\* C6: when run() returns, a sink connected to a source has observed exactly
\* the values of the source, in order, and is closed (1, 2, 3 for the int
\* source); and run() returns, because each round of its loop that does not
\* return leaves less to do when every bound slot leads to a live source
C6_InOrderDelivery ==
    /\ [](RunReturned =>
            \A a \in Handles, b \in Handles :
                Delivers(a, b)
                    => /\ nodes[b + 1].observed = Values(ScriptOf(nodes[a + 1].type))
                       /\ nodes[b + 1].status = "closed")
    /\ [][pc = "run" /\ WellFormed /\ pc' = "run"
             => Rank(nodes', 1) < Rank(nodes, 1)]_vars

\* run() has returned with the int sink having taken 1, 2, 3 from the int source
C6_Witness ==
    /\ RunReturned
    /\ \E a \in Handles, b \in Handles :
          /\ Delivers(a, b)
          /\ nodes[a + 1].type = "int"
          /\ nodes[b + 1].observed = <<1, 2, 3>>

\* ----------------------------------------------------------- the node table
\* C11: create_node returns a valid handle that is the position of the new
\* node and was never returned before (the table only grows, by one entry at
\* its end), and an erased handle resolves to no node for ever
C11_HandlesNeverReused ==
    [][/\ (\E N \in NodeClasses : create_node(N))
            => /\ is_valid(last'.ret)
               /\ last'.ret = Len(nodes)
               /\ Len(nodes') = last'.ret + 1
               /\ nodes'[last'.ret + 1].kind # "none"
               /\ \A n \in 1 .. Len(nodes) : nodes'[n] = nodes[n]
       /\ Len(nodes') >= Len(nodes)
       /\ \A h \in Handles :
              Erased(h) => h + 1 <= Len(nodes') /\ nodes'[h + 1].kind = "none"
       /\ \A h \in Handles : Erased(h) => get_node(h) = {NullPtr}]_vars

\* create_node has just returned handle 1 while handle 0 is erased
C11_Witness ==
    /\ last.op = "create_node" /\ last.ret = 1
    /\ Erased(0) /\ Live(1)

C14_GetNodeTotal ==
    \A h \in Handles : get_node(h) = {IF Live(h) THEN h ELSE NullPtr}

\* ------------------------------------------------------------------- ticks
\* this step is a tick: a step() of the host or a round of the loop of run()
Tick == last'.op = "step" \/ pc = "run"

\* the tick reported completion
ReportedComplete == IF pc = "run" THEN pc' = "idle" ELSE last'.res = "true"

\* node n of table ns is the upstream of a slot, i.e. a connect made it the
\* source of a connection
HasOutgoing(ns, n) == \E i \in 1 .. Len(ns) : ns[i].kind = "sink" /\ ns[i].input = n

\* every node of table ns that no connect made a source has reported closed
TerminalsClosed(ns) ==
    \A n \in 0 .. Len(ns) - 1 :
        ns[n + 1].kind # "none" /\ ~HasOutgoing(ns, n) => ns[n + 1].status = "closed"

\* C12: step() returns true exactly when every terminal node has reported
\* closed, and on the first tick when the graph is one unconnected sink
C12_CompletionPredicate ==
    [][last'.op = "step"
          => /\ last'.res = "true" <=> TerminalsClosed(nodes')
             /\ (Len(nodes) = 1 /\ nodes[1].kind = "sink" /\ nodes[1].input = NullPtr)
                    => last'.res = "true"]_vars

\* what a sink that is not closed reports when it reads status st
Follows(st) == IF st = "none" THEN "empty" ELSE st

\* C15: a tick polls every node of the table exactly once, in table order,
\* leaves the emptied entries alone and reports on the table as it is after
\* the last poll
C15_FullTick ==
    [][Tick
          => /\ Len(nodes') = Len(nodes)
             /\ ReportedComplete <=> Complete(nodes')
             /\ \A i \in 1 .. Len(nodes) :
                   LET n == nodes[i]
                       up == n.input
                   IN /\ n.kind = "none" => nodes'[i] = n
                      /\ n.kind = "source" /\ n.script # << >> /\ n.status # "closed"
                             => nodes'[i].script = Tail(n.script)
                      /\ n.kind = "source" /\ n.script = << >>
                             => nodes'[i].status = "closed"
                      /\ n.kind = "sink" /\ n.status # "closed" /\ up = NullPtr
                             => nodes'[i].status = "closed"
                      /\ n.kind = "sink" /\ n.status # "closed" /\ Live(up)
                             => nodes'[i].status =
                                    IF up + 1 < i
                                    THEN Follows(nodes'[up + 1].status)
                                    ELSE Follows(nodes[up + 1].status)]_vars

\* a tick has just let a sink take the first value of the source created
\* before it, in the same tick, next to an emptied entry
C15_Witness ==
    /\ last.op = "step"
    /\ \E a \in Handles, b \in Handles :
          /\ a < b /\ Delivers(a, b)
          /\ nodes[a + 1].emitted = <<1>> /\ nodes[b + 1].observed = <<1>>

\* C16: erase_node leaves the connection list alone, and a slot whose
\* upstream was erased reports closed at every later tick
C16_ErasedUpstreamClosed ==
    [][/\ last'.op = "erase_node" => connections' = connections
       /\ Tick => \A i \in 1 .. Len(nodes) :
                      nodes[i].kind = "sink" /\ Erased(nodes[i].input)
                          => nodes'[i].status = "closed"]_vars

\* step() has just returned true
StepTrue == last.op = "step" /\ last.res = "true"

\* C20: a run() returns at its first step that reports completion and not
\* before, and a tick on a complete graph reports completion again and leaves
\* it complete
C20_CompletionAbsorbing ==
    /\ [](StepTrue \/ RunReturned => Complete(nodes))
    /\ [][/\ pc = "run" => (pc' = "idle" <=> Complete(nodes'))
          /\ Tick /\ Complete(nodes) => ReportedComplete /\ Complete(nodes')]_vars

\* run() has returned on a graph whose sink took 1, 2, 3 and is closed
C20_Witness ==
    /\ RunReturned
    /\ Complete(nodes)
    /\ \E b \in Handles : Live(b) /\ nodes[b + 1].status = "closed"
                          /\ nodes[b + 1].observed = <<1, 2, 3>>

\* C17: a connect whose destination is a source fails for every live src and
\* every slot and leaves the graph as it was
C17_SourceAcceptsNoUpstream ==
    [][last'.op = "connect" /\ ~(last'.res \in pipeline_error_kind /\ nodes' = nodes)
          => \A dst \in Handles, src \in Handles, slot \in Slots :
                 Live(dst) /\ nodes[dst + 1].kind = "source" /\ Live(src)
                     => ~connect(src, dst, slot)]_vars

\* a connect has just failed with the error of a source, with nothing bound
C17_Witness ==
    /\ last.op = "connect" /\ last.res = "no_such_slot"
    /\ \E dst \in Handles : Live(dst) /\ nodes[dst + 1].kind = "source"
    /\ \A i \in 1 .. Len(nodes) : nodes[i].input = NullPtr

\* the nodes currently in the table
LiveNodes == {n \in 0 .. Len(nodes) - 1 : nodes[n + 1].kind # "none"}

\* C18: exporting succeeds in every state, writes one entry per node and one
\* per connection and changes neither the table nor the connection list
C18_ExportReadOnly ==
    /\ [](last.op = "export"
            => last.res = "ok" /\ last.ret = Cardinality(LiveNodes) + Len(connections))
    /\ [][last'.op = "export" => nodes' = nodes /\ connections' = connections]_vars

\* C19: node_ids maps every node of the table, and both ends of every
\* connection, to its handle
C19_NodeIdsComplete ==
    /\ \A n \in LiveNodes : n \in DOMAIN node_ids /\ node_ids[n] = n
    /\ \A k \in 1 .. Len(connections) :
          /\ connections[k].src \in DOMAIN node_ids
          /\ connections[k].dst \in DOMAIN node_ids
====
